---------------------------- MODULE Spec2Model ----------------------------
(***************************************************************************)
(* gzinspector: boundary recovery over a stream of concatenated gzip       *)
(* members (read_chunk), the chunk iteration of inspect_file with its      *)
(* head/tail chunk filter, and the TailBuffer ring.                        *)
(*                                                                         *)
(* Bytes are the integers 0..255 and a stream is a sequence of bytes.  The *)
(* member decoder the code calls (flate2's GzDecoder, one member, trailing *)
(* bytes ignored) is modelled after RFC 1952/1951 on real byte strings:    *)
(* header, optional fields, DEFLATE blocks, CRC-32 and ISIZE.              *)
(***************************************************************************)
EXTENDS Integers, Sequences, FiniteSets, TLC

(***************************************************************************)
(* Bounds of the model.                                                    *)
(***************************************************************************)
\* Length of one read block and capacity of the BufReader (8192 in the
\* source, gzip.rs:131 and std's BufReader default), scaled to the streams
\* of the model.
BlockSize == 24
\* The safety ceiling on the accumulated member (20 MiB in the source,
\* gzip.rs:169), scaled to the streams of the model.
SafetyCeiling == 60
\* Largest TailBuffer capacity and number of adds explored by TailSpec.
MaxCapacity == 3
MaxAdds == 7
\* Largest head and tail counts of the chunk filters explored.
MaxHead == 1
MaxTail == 2
\* Largest extra-field buffer explored by ExtraSpec.
MaxExtra == 9

\* Size of the fixed gzip header.
GZIP_HEADER_SIZE == 10

Min(a, b) == IF a < b THEN a ELSE b
Max(a, b) == IF a > b THEN a ELSE b

\* s[from+1 .. to] with 0-based, end-exclusive bounds, as a Rust slice
\* s[from..to].
Slice(s, from, to) == SubSeq(s, from + 1, to)

\* n times the byte b.
Fill(b, n) == SubSeq([k \in 1..n |-> b], 1, n)

(***************************************************************************)
(* CRC-32 (IEEE, reflected, polynomial 0xEDB88320) on 32-bit words kept as *)
(* <<low 16 bits, high 16 bits>>, since the integers of TLC are signed     *)
(* 32-bit.                                                                 *)
(***************************************************************************)
RECURSIVE BitXor(_, _)
BitXor(a, b) ==
    IF a = 0 THEN b
    ELSE IF b = 0 THEN a
    ELSE (((a % 2) + (b % 2)) % 2) + 2 * BitXor(a \div 2, b \div 2)

\* One bit of the CRC register: shift right, xor the polynomial when the
\* bit shifted out was set.
CrcShift(w) ==
    LET lo == (w[1] \div 2) + (w[2] % 2) * 32768
        hi == w[2] \div 2
    IN  IF w[1] % 2 = 1 THEN <<BitXor(lo, 33568), BitXor(hi, 60856)>>
                        ELSE <<lo, hi>>

RECURSIVE CrcShiftN(_, _)
CrcShiftN(w, n) == IF n = 0 THEN w ELSE CrcShiftN(CrcShift(w), n - 1)

CrcTable == [n \in 0..255 |-> CrcShiftN(<<n, 0>>, 8)]

\* crc = table[(crc ^ b) & 0xFF] ^ (crc >> 8)
CrcCombine(t, w) ==
    <<BitXor(t[1], (w[1] \div 256) + (w[2] % 256) * 256),
      BitXor(t[2], w[2] \div 256)>>

CrcUpdate(w, b) == CrcCombine(CrcTable[BitXor(w[1] % 256, b)], w)

\* c.w is the register after the bytes data[1..c.k-1]; the fold takes up
\* to n more bytes, in order.
RECURSIVE CrcFold(_, _, _)
CrcFold(c, data, n) ==
    IF c.k > Len(data) THEN c
    ELSE IF n <= 1 THEN [w |-> CrcUpdate(c.w, data[c.k]), k |-> c.k + 1]
    ELSE CrcFold(CrcFold(c, data, n \div 2), data, n - (n \div 2))

\* The four little-endian bytes of the word <<lo, hi>>.
WordBytes(lo, hi) == <<lo % 256, lo \div 256, hi % 256, hi \div 256>>

\* The final xor with 0xFFFFFFFF is the complement of each half.
CrcFinish(w) == WordBytes(65535 - w[1], 65535 - w[2])

\* The CRC-32 of data, as its four little-endian bytes.
Crc32(data) ==
    CrcFinish(CrcFold([w |-> <<65535, 65535>>, k |-> 1], data, Len(data)).w)

\* n as four little-endian bytes (n < 2^31 here).
LE32(n) == <<n % 256, (n \div 256) % 256, (n \div 65536) % 256, (n \div 16777216) % 256>>
LE16(n) == <<n % 256, (n \div 256) % 256>>
FromLE16(s, at) == s[at + 1] + 256 * s[at + 2]

\* bit k (0 = least significant) of byte b is set
Bit(b, k) == (b \div (2 ^ k)) % 2 = 1

(***************************************************************************)
(* The member decoder: GzDecoder::new(data).read_to_end(..).               *)
(* ok: the data starts with one complete, valid member (bytes after it are *)
(* not looked at); out: the decoded payload.                               *)
(***************************************************************************)
DecodeFail == [ok |-> FALSE, out |-> <<>>, used |-> 0]

\* The most bytes a NAME or COMMENT field may have before its terminator.
MAX_HEADER_BUF == 65535

\* The bytes from `at` are read one at a time: a zero byte ends the field,
\* any other byte is kept unless MAX_HEADER_BUF bytes are kept already.
\* Index (0-based) of the terminator; Len(data) when the data ends before
\* it; -1 when the field is too long.
FindZero(data, at) ==
    LET last == IF at + MAX_HEADER_BUF < Len(data) THEN at + MAX_HEADER_BUF
                ELSE Len(data) - 1
    IN  IF \E k \in at..last : data[k + 1] = 0
        THEN CHOOSE k \in at..last :
                data[k + 1] = 0 /\ \A m \in at..(k - 1) : data[m + 1] # 0
        ELSE IF at + MAX_HEADER_BUF < Len(data) THEN -1
        ELSE Len(data)

\* Position after the zero-terminated string starting at p, or -1 when
\* the data ends before its terminator or the string is too long.
AfterZero(data, z) == IF z < 0 \/ z >= Len(data) THEN -1 ELSE z + 1
ZeroEnd(data, p) == AfterZero(data, FindZero(data, p))

\* FHCRC: two bytes, the low 16 bits of the CRC-32 of the header so far.
HdrCrc(data, flg, p) ==
    IF p < 0 \/ ~Bit(flg, 1) THEN p
    ELSE IF p + 2 > Len(data) THEN -1
    ELSE IF Slice(data, p, p + 2) = SubSeq(Crc32(Slice(data, 0, p)), 1, 2) THEN p + 2
    ELSE -1

\* FCOMMENT, then FHCRC.
HdrComment(data, flg, p) ==
    HdrCrc(data, flg, IF p < 0 \/ ~Bit(flg, 4) THEN p ELSE ZeroEnd(data, p))

\* FNAME, then the rest.
HdrName(data, flg, p) ==
    HdrComment(data, flg, IF p < 0 \/ ~Bit(flg, 3) THEN p ELSE ZeroEnd(data, p))

\* FEXTRA (XLEN and XLEN bytes), then the rest.
HdrExtra(data, flg) ==
    HdrName(data, flg,
            IF ~Bit(flg, 2) THEN GZIP_HEADER_SIZE
            ELSE IF Len(data) < GZIP_HEADER_SIZE + 2 THEN -1
            ELSE IF GZIP_HEADER_SIZE + 2 + FromLE16(data, GZIP_HEADER_SIZE) > Len(data) THEN -1
            ELSE GZIP_HEADER_SIZE + 2 + FromLE16(data, GZIP_HEADER_SIZE))

\* Position of the first DEFLATE byte after the header and the optional
\* fields the flag byte announces, or -1 when the header is malformed
\* (magic, method other than 8, a reserved flag bit) or the data ends
\* inside it.
GzHeaderEnd(data) ==
    IF Len(data) < GZIP_HEADER_SIZE THEN -1
    ELSE IF data[1] # 31 \/ data[2] # 139 \/ data[3] # 8 THEN -1
    ELSE IF data[4] \div 32 # 0 THEN -1
    ELSE HdrExtra(data, data[4])

\* The DEFLATE decoder behind GzDecoder (flate2 over miniz_oxide, in its
\* streaming mode with the 32 KiB window that starts zeroed).  Positions
\* `bp` count bits of data, the least significant bit of byte 0 first.
BitAt(data, bp) == (data[(bp \div 8) + 1] \div (2 ^ (bp % 8))) % 2
HasBits(data, bp, n) == bp + n <= 8 * Len(data)

\* The n bits at bp as a number, first bit least significant (a header
\* field or the extra bits of a code); the caller has checked HasBits.
RECURSIVE Bits(_, _, _)
Bits(data, bp, n) ==
    IF n = 0 THEN 0 ELSE BitAt(data, bp) + 2 * Bits(data, bp + 1, n - 1)

\* The n bits at bp as a number, first bit most significant (a Huffman
\* code).
RECURSIVE CodeBits(_, _, _)
CodeBits(data, bp, n) ==
    IF n = 0 THEN 0 ELSE 2 * CodeBits(data, bp, n - 1) + BitAt(data, bp + n - 1)

\* Base and number of extra bits of the length codes 257..285 and of the
\* distance codes 0..29.
LENGTH_BASE ==
    <<3, 4, 5, 6, 7, 8, 9, 10, 11, 13, 15, 17, 19, 23, 27, 31, 35, 43, 51, 59,
      67, 83, 99, 115, 131, 163, 195, 227, 258>>
LENGTH_EXTRA ==
    <<0, 0, 0, 0, 0, 0, 0, 0, 1, 1, 1, 1, 2, 2, 2, 2, 3, 3, 3, 3,
      4, 4, 4, 4, 5, 5, 5, 5, 0>>
DIST_BASE ==
    <<1, 2, 3, 4, 5, 7, 9, 13, 17, 25, 33, 49, 65, 97, 129, 193, 257, 385,
      513, 769, 1025, 1537, 2049, 3073, 4097, 6145, 8193, 12289, 16385, 24577>>
DIST_EXTRA ==
    <<0, 0, 0, 0, 1, 1, 2, 2, 3, 3, 4, 4, 5, 5, 6, 6, 7, 7, 8, 8,
      9, 9, 10, 10, 11, 11, 12, 12, 13, 13>>
\* The order the sizes of the code-length alphabet are stored in.
LENGTH_DEZIGZAG == <<16, 17, 18, 0, 8, 7, 9, 6, 10, 5, 11, 4, 12, 3, 13, 2, 14, 1, 15>>
\* Extra bits and base of the repeat codes 16, 17, 18.
REPEAT_EXTRA == <<2, 3, 7>>
REPEAT_BASE == <<3, 3, 11>>

\* A Huffman table from the code sizes of the symbols 0..Len(sizes)-1
\* (size 0: unused).  count[l] symbols have size l; symbol lists them by
\* size, then by value, the order of their canonical codes; start[l] is
\* the first code of size l and the place of its symbol in the list.
RECURSIVE SizeCounts(_, _)
SizeCounts(sizes, l) ==
    IF l > 15 THEN <<>>
    ELSE <<Cardinality({s \in 1..Len(sizes) : sizes[s] = l})>> \o SizeCounts(sizes, l + 1)

RECURSIVE SizeSymbols(_, _)
SizeSymbols(sizes, l) ==
    IF l > 15 THEN <<>>
    ELSE SelectSeq([s \in 1..Len(sizes) |-> s - 1], LAMBDA s : sizes[s + 1] = l)
            \o SizeSymbols(sizes, l + 1)

RECURSIVE CodeStarts(_, _, _, _)
CodeStarts(count, l, first, index) ==
    IF l > 15 THEN <<>>
    ELSE <<[first |-> first, index |-> index]>>
            \o CodeStarts(count, l + 1, 2 * (first + count[l]), index + count[l])

\* total = (total + count[l]) << 1 over the sizes 1..15: 65536 exactly
\* when the code is complete.
RECURSIVE CodeSpace(_, _, _)
CodeSpace(count, l, total) ==
    IF l > 15 THEN total ELSE CodeSpace(count, l + 1, 2 * (total + count[l]))

\* The three tables of a block.
LITLEN_TABLE == 0
DIST_TABLE == 1
HUFFLEN_TABLE == 2

\* The table bt is refused when the code is over-subscribed, or is
\* incomplete and either more than one symbol is used or the table is the
\* one of the code-length alphabet.
HuffTable(count, symbol, bt) ==
    [ok |-> CodeSpace(count, 1, 0) = 65536 \/ (Len(symbol) <= 1 /\ bt # HUFFLEN_TABLE),
     count |-> count, symbol |-> symbol, start |-> CodeStarts(count, 1, 0, 0)]

init_tree(sizes, bt) == HuffTable(SizeCounts(sizes, 1), SizeSymbols(sizes, 1), bt)

\* The tables of a fixed-Huffman block (BTYPE 01).
FixedLitlen ==
    init_tree([s \in 1..288 |-> IF s <= 144 THEN 8 ELSE IF s <= 256 THEN 9
                                 ELSE IF s <= 280 THEN 7 ELSE 8], LITLEN_TABLE)
FixedDist == init_tree([s \in 1..32 |-> 5], DIST_TABLE)

\* One symbol of the table h from bp: the code read is the shortest one
\* of the table that the bits start with.  sym = -1: the data ends inside
\* the code, or no code of the table starts with these bits.
FAST_LOOKUP_BITS == 10

HuffFits(data, bp, h) ==
    {l \in 1..15 : /\ HasBits(data, bp, l)
                   /\ CodeBits(data, bp, l) - h.count[l] < h.start[l].first}

HuffSymbol(data, bp, h, l) ==
    [sym |-> h.symbol[h.start[l].index + (CodeBits(data, bp, l) - h.start[l].first) + 1],
     bp |-> bp + l]

\* A table whose only symbol has a code of more than FAST_LOOKUP_BITS
\* bits (all of them 0) keeps that code in a tree whose other leaves are
\* left zeroed: bits that leave the code after its first FAST_LOOKUP_BITS
\* bits, that is l - 1 zero bits and a one, are read as the symbol 0.
HuffStray(data, bp, h) ==
    {l \in (FAST_LOOKUP_BITS + 1)..15 :
        /\ Len(h.symbol) = 1
        /\ \E m \in l..15 : h.count[m] = 1
        /\ HasBits(data, bp, l)
        /\ CodeBits(data, bp, l) = 1}

HuffShortest(data, bp, h, fits, stray) ==
    IF fits # {} THEN HuffSymbol(data, bp, h, CHOOSE l \in fits : \A m \in fits : l <= m)
    ELSE IF stray # {} THEN [sym |-> 0, bp |-> bp + (CHOOSE l \in stray : TRUE)]
    ELSE [sym |-> -1, bp |-> 0]

decode_huffman_code(data, bp, h) ==
    HuffShortest(data, bp, h, HuffFits(data, bp, h), HuffStray(data, bp, h))

\* A match: n bytes copied one by one from dist bytes back, so that the
\* bytes repeat with period dist; a position before the start of the
\* output is in the zeroed window.
MatchByte(out, dist, j) ==
    IF Len(out) - dist + (j % dist) < 0 THEN 0
    ELSE out[Len(out) - dist + (j % dist) + 1]

CopyMatch(out, dist, n) == out \o [j \in 1..n |-> MatchByte(out, dist, j - 1)]

\* The decoder between two steps.  pc: "block" before a block header,
\* "sizes" inside the code sizes of a dynamic block, "codes" inside the
\* codes of a Huffman block, "done", "fail".
InflateStart(at, out) ==
    [pc |-> "block", bp |-> 8 * at, out |-> out, final |-> 0,
     lit |-> FixedLitlen, dist |-> FixedDist, cl |-> FixedDist,
     sizes |-> <<>>, hlit |-> 0, want |-> 0]

InflateStop(s) == [s EXCEPT !.pc = "fail"]

\* After a block: the stream ends when the block was the final one.
BlockDone(s) == [s EXCEPT !.pc = IF s.final = 1 THEN "done" ELSE "block"]

\* A stored block (BTYPE 00) whose LEN field is at byte p.
StoredLen(data, s, p, len) ==
    IF p + 4 + len > Len(data) THEN InflateStop(s)
    ELSE BlockDone([s EXCEPT !.bp = 8 * (p + 4 + len),
                             !.out = s.out \o Slice(data, p + 4, p + 4 + len)])

Stored(data, s, p) ==
    IF p + 4 > Len(data) THEN InflateStop(s)
    ELSE IF FromLE16(data, p) + FromLE16(data, p + 2) # 65535 THEN InflateStop(s)
    ELSE StoredLen(data, s, p, FromLE16(data, p))

\* The sizes of the 19 symbols of the code-length alphabet: hclen
\* three-bit fields from bp, in the order of LENGTH_DEZIGZAG.
HuffLenSizes(data, bp, hclen) ==
    SubSeq([sym \in 1..19 |->
              IF \E k \in 1..hclen : LENGTH_DEZIGZAG[k] = sym - 1
              THEN Bits(data, bp + 3 * ((CHOOSE k \in 1..hclen :
                                            LENGTH_DEZIGZAG[k] = sym - 1) - 1), 3)
              ELSE 0], 1, 19)

\* The header of a dynamic-Huffman block (BTYPE 10): HLIT, HDIST, HCLEN
\* and the table of the code-length alphabet.  More than 286
\* literal/length sizes or more than 30 distance sizes are refused as
\* soon as the three counts are read.
DynamicTable(s, bp, hlit, hdist, cl) ==
    IF ~cl.ok THEN InflateStop(s)
    ELSE [s EXCEPT !.pc = "sizes", !.bp = bp, !.cl = cl, !.sizes = <<>>,
                   !.hlit = hlit, !.want = hlit + hdist]

DynamicHeader(data, s, bp, hlit, hdist, hclen) ==
    IF hlit > 286 \/ hdist > 30 THEN InflateStop(s)
    ELSE IF ~HasBits(data, bp, 3 * hclen) THEN InflateStop(s)
    ELSE DynamicTable(s, bp + 3 * hclen, hlit, hdist,
                      init_tree(HuffLenSizes(data, bp, hclen), HUFFLEN_TABLE))

Dynamic(data, s) ==
    IF ~HasBits(data, s.bp, 14) THEN InflateStop(s)
    ELSE DynamicHeader(data, s, s.bp + 14, Bits(data, s.bp, 5) + 257,
                       Bits(data, s.bp + 5, 5) + 1, Bits(data, s.bp + 10, 4) + 4)

\* One block header: BFINAL, then BTYPE.
BlockOfType(data, s, type) ==
    IF type = 0 THEN Stored(data, s, (s.bp + 7) \div 8)
    ELSE IF type = 1 THEN [s EXCEPT !.pc = "codes", !.lit = FixedLitlen, !.dist = FixedDist]
    ELSE IF type = 2 THEN Dynamic(data, s)
    ELSE InflateStop(s)

BlockHeader(data, s) ==
    IF ~HasBits(data, s.bp, 3) THEN InflateStop(s)
    ELSE BlockOfType(data, [s EXCEPT !.bp = s.bp + 3, !.final = BitAt(data, s.bp)],
                     Bits(data, s.bp + 1, 2))

\* With all the code sizes of a dynamic block read: the distance table,
\* then the literal/length table.
SizesTables(s, lit, dist) ==
    IF ~dist.ok \/ ~lit.ok THEN InflateStop(s)
    ELSE [s EXCEPT !.pc = "codes", !.lit = lit, !.dist = dist]

SizesRead(s) ==
    IF Len(s.sizes) < s.want THEN s
    ELSE IF Len(s.sizes) > s.want THEN InflateStop(s)
    ELSE SizesTables(s, init_tree(SubSeq(s.sizes, 1, s.hlit), LITLEN_TABLE),
                     init_tree(SubSeq(s.sizes, s.hlit + 1, s.want), DIST_TABLE))

\* The symbol r of the code-length alphabet: a size 0..15, or a repeat
\* of the previous size (16) or of size 0 (17, 18).
SizeSymbol(data, s, r) ==
    IF r.sym < 0 THEN InflateStop(s)
    ELSE IF r.sym < 16
    THEN SizesRead([s EXCEPT !.bp = r.bp, !.sizes = Append(s.sizes, r.sym)])
    ELSE IF r.sym = 16 /\ s.sizes = <<>> THEN InflateStop(s)
    ELSE IF ~HasBits(data, r.bp, REPEAT_EXTRA[r.sym - 15]) THEN InflateStop(s)
    ELSE SizesRead([s EXCEPT
            !.bp = r.bp + REPEAT_EXTRA[r.sym - 15],
            !.sizes = s.sizes \o Fill(IF r.sym = 16 THEN s.sizes[Len(s.sizes)] ELSE 0,
                                      REPEAT_BASE[r.sym - 15]
                                        + Bits(data, r.bp, REPEAT_EXTRA[r.sym - 15]))])

\* The distance of a match of n bytes: its code d, then its extra bits.
MatchDist(data, s, d, n) ==
    IF d.sym < 0 \/ d.sym > 29 THEN InflateStop(s)
    ELSE IF ~HasBits(data, d.bp, DIST_EXTRA[d.sym + 1]) THEN InflateStop(s)
    ELSE [s EXCEPT !.bp = d.bp + DIST_EXTRA[d.sym + 1],
                   !.out = CopyMatch(s.out, DIST_BASE[d.sym + 1]
                                              + Bits(data, d.bp, DIST_EXTRA[d.sym + 1]), n)]

\* The symbol r of the literal/length alphabet: a literal, the end of the
\* block, or a length (its extra bits follow, then the distance).
LitlenSymbol(data, s, r) ==
    IF r.sym < 0 THEN InflateStop(s)
    ELSE IF r.sym < 256 THEN [s EXCEPT !.bp = r.bp, !.out = Append(s.out, r.sym)]
    ELSE IF r.sym = 256 THEN BlockDone([s EXCEPT !.bp = r.bp])
    ELSE IF r.sym > 285 THEN InflateStop(s)
    ELSE IF ~HasBits(data, r.bp, LENGTH_EXTRA[r.sym - 256]) THEN InflateStop(s)
    ELSE MatchDist(data, s,
                   decode_huffman_code(data, r.bp + LENGTH_EXTRA[r.sym - 256], s.dist),
                   LENGTH_BASE[r.sym - 256] + Bits(data, r.bp, LENGTH_EXTRA[r.sym - 256]))

\* One step of the decoder: a block header (with the whole block when it
\* is stored), one code size, or one literal or match.
InflateStep(data, s) ==
    IF s.pc = "block" THEN BlockHeader(data, s)
    ELSE IF s.pc = "sizes" THEN SizeSymbol(data, s, decode_huffman_code(data, s.bp, s.cl))
    ELSE IF s.pc = "codes" THEN LitlenSymbol(data, s, decode_huffman_code(data, s.bp, s.lit))
    ELSE s

\* Up to n steps, until the decoder is done or has failed.
RECURSIVE InflateLoop(_, _, _)
InflateLoop(data, s, n) ==
    IF s.pc \in {"done", "fail"} THEN s
    ELSE IF n <= 1 THEN InflateStep(data, s)
    ELSE InflateLoop(data, InflateLoop(data, s, n \div 2), n - (n \div 2))

\* The output, and the position of the byte after the final block.
InflateResult(s) ==
    IF s.pc = "done" THEN [ok |-> TRUE, next |-> (s.bp + 7) \div 8, out |-> s.out]
    ELSE [ok |-> FALSE, out |-> <<>>, next |-> 0]

\* The DEFLATE stream starting at byte `at`, its output appended to out.
\* Every step that does not fail takes at least one bit of data, so
\* 8 * Len(data) + 1 steps reach the end of any stream.
Inflate(data, at, out) ==
    InflateResult(InflateLoop(data, InflateStart(at, out), 8 * Len(data) + 1))

\* The trailer after the DEFLATE stream r: CRC-32 and ISIZE of the output.
GzTrailer(data, r) ==
    IF ~r.ok THEN DecodeFail
    ELSE IF r.next + 8 > Len(data) THEN DecodeFail
    ELSE IF Slice(data, r.next, r.next + 4) # Crc32(r.out) THEN DecodeFail
    ELSE IF Slice(data, r.next + 4, r.next + 8) # LE32(Len(r.out)) THEN DecodeFail
    ELSE [ok |-> TRUE, out |-> r.out, used |-> r.next + 8]

GzDecodeFrom(data, p) ==
    IF p < 0 THEN DecodeFail ELSE GzTrailer(data, Inflate(data, p, <<>>))

GzDecode(data) == GzDecodeFrom(data, GzHeaderEnd(data))

(***************************************************************************)
(* Building members, for the input streams.                                *)
(***************************************************************************)
\* The fixed header: magic, CM = 8 (deflate), FLG, MTIME = 0, XFL = 0,
\* OS = 255.
FixedHeader(flg) == <<31, 139, 8, flg, 0, 0, 0, 0, 0, 255>>

\* One final stored block holding payload.
StoredBlock(payload) ==
    <<1>> \o LE16(Len(payload)) \o LE16(65535 - Len(payload)) \o payload

\* A valid member with flag byte flg, the bytes `opt` of its optional
\* fields, and the payload.
Member(flg, opt, payload) ==
    FixedHeader(flg) \o opt \o StoredBlock(payload) \o Crc32(payload) \o LE32(Len(payload))


(***************************************************************************)
(* The byte source: std's BufReader over the file, as inspect_file builds  *)
(* it.  inner is the file cursor, rem the number of buffered bytes not yet *)
(* handed out, so the logical position is inner - rem.                     *)
(***************************************************************************)
\* reader.seek(SeekFrom::Start(p)): the buffer is dropped.
seek(p) == [inner |-> p, rem |-> 0]

\* reader.stream_position()
stream_position(rd) == rd.inner - rd.rem

\* Handing out up to n of the rem bytes buffered before the file cursor.
take(inner, rem, n) ==
    [rd |-> [inner |-> inner, rem |-> rem - Min(n, rem)],
     from |-> inner - rem, k |-> Min(n, rem)]

\* Reading fill bytes of the file into the empty buffer, then handing out.
refill(rd, fill, n) == take(rd.inner + fill, fill, n)

\* reader.read(buf) with buf.len() = n on the file s: with an empty buffer
\* and n at least the capacity the file is read directly; otherwise the
\* buffer is refilled when empty and the bytes it holds are handed out.
\* k is the number of bytes read, starting at position `from`.
read(s, rd, n) ==
    IF rd.rem = 0 /\ n >= BlockSize
    THEN [rd |-> [inner |-> rd.inner + Min(n, Max(0, Len(s) - rd.inner)), rem |-> 0],
          from |-> rd.inner, k |-> Min(n, Max(0, Len(s) - rd.inner))]
    ELSE IF rd.rem = 0
    THEN refill(rd, Min(BlockSize, Max(0, Len(s) - rd.inner)), n)
    ELSE take(rd.inner, rd.rem, n)

\* reader.read_exact(buf) with buf.len() = n: reads until n bytes are in
\* or a read returns 0 (UnexpectedEof).  `from` is where the bytes start.
RECURSIVE read_exact_from(_, _, _, _)
read_exact_next(s, r, n, from) ==
    IF r.k = 0 THEN [ok |-> FALSE, rd |-> r.rd, from |-> from]
    ELSE read_exact_from(s, r.rd, n - r.k, from)

read_exact_from(s, rd, n, from) ==
    IF n = 0 THEN [ok |-> TRUE, rd |-> rd, from |-> from]
    ELSE read_exact_next(s, read(s, rd, n), n, from)

read_exact(s, rd, n) == read_exact_from(s, rd, n, stream_position(rd))

(***************************************************************************)
(* parse_gzip_header                                                       *)
(***************************************************************************)
\* The subfield loop over the extra-field buffer: (id, data) records.
RECURSIVE extra_subfields(_, _)
extra_subfields(extra, pos) ==
    IF pos + 4 > Len(extra) THEN <<>>
    ELSE LET si1  == extra[pos + 1]
             si2  == extra[pos + 2]
             len  == FromLE16(extra, pos + 2)
             data == IF pos + 4 + len <= Len(extra)
                     THEN Slice(extra, pos + 4, pos + 4 + len)
                     ELSE <<>>
         IN  <<[id |-> si1 * 256 + si2, data |-> data]>>
               \o extra_subfields(extra, pos + 4 + len)

\* `while reader.read_exact(&mut buf).is_ok() && buf[0] != 0 { push }`:
\* bytes up to and including the zero terminator, or up to the end of the
\* source.
RECURSIVE read_cstring(_, _, _)
read_cstring_next(s, r, acc) ==
    IF ~r.ok THEN [rd |-> r.rd, bytes |-> acc]
    ELSE IF s[r.from + 1] = 0 THEN [rd |-> r.rd, bytes |-> acc]
    ELSE read_cstring(s, r.rd, Append(acc, s[r.from + 1]))

read_cstring(s, rd, acc) == read_cstring_next(s, read_exact(s, rd, 1), acc)

header_flags(flg) ==
    (IF Bit(flg, 0) THEN <<"TEXT">> ELSE <<>>) \o
    (IF Bit(flg, 1) THEN <<"HCRC">> ELSE <<>>) \o
    (IF Bit(flg, 2) THEN <<"EXTRA">> ELSE <<>>) \o
    (IF Bit(flg, 3) THEN <<"NAME">> ELSE <<>>) \o
    (IF Bit(flg, 4) THEN <<"COMMENT">> ELSE <<>>)

\* What parse_gzip_header has read so far.  ok = FALSE is the
\* UnexpectedEof of a failed read_exact in the EXTRA field.
HeaderInfo(ok, rd, flg, extra_fields, filename, comment) ==
    [ok |-> ok, rd |-> rd, flags |-> header_flags(flg),
     extra_fields |-> extra_fields, filename |-> filename, comment |-> comment]

\* The bytes of text are well-formed UTF-8: every byte is an ASCII byte,
\* the first byte of a sequence of 2 to 4 bytes that is complete (no
\* overlong form, no surrogate, nothing above U+10FFFF), or a
\* continuation byte inside such a sequence.
run_utf8_validation(text) ==
    LET width(lead) == IF lead < 128 THEN 1
                       ELSE IF lead \in 194..223 THEN 2
                       ELSE IF lead \in 224..239 THEN 3
                       ELSE IF lead \in 240..244 THEN 4
                       ELSE 0
        second(lead) == IF lead = 224 THEN 160..191
                        ELSE IF lead = 237 THEN 128..159
                        ELSE IF lead = 240 THEN 144..191
                        ELSE IF lead = 244 THEN 128..143
                        ELSE 128..191
    IN  \A i \in 1..Len(text) :
            IF text[i] < 128 THEN TRUE
            ELSE IF text[i] \in 128..191
            THEN \E j \in Max(1, i - 3)..(i - 1) : width(text[j]) > i - j
            ELSE /\ width(text[i]) >= 2
                 /\ i + width(text[i]) - 1 <= Len(text)
                 /\ text[i + 1] \in second(text[i])
                 /\ \A m \in (i + 2)..(i + width(text[i]) - 1) : text[m] \in 128..191

\* String::from_utf8(text).ok(): the string, or None (here the empty
\* sequence, as for a field that is absent) when text is not UTF-8.
from_utf8(text) == IF run_utf8_validation(text) THEN text ELSE <<>>

\* "Read comment if present".
parse_comment(flg, h, cm) ==
    IF Bit(flg, 4) THEN [h EXCEPT !.rd = cm.rd, !.comment = from_utf8(cm.bytes)] ELSE h

\* "Read filename if present", then the comment.
parse_filename(flg, s, h, nm) ==
    IF Bit(flg, 3)
    THEN parse_comment(flg, [h EXCEPT !.rd = nm.rd, !.filename = from_utf8(nm.bytes)],
                       read_cstring(s, nm.rd, <<>>))
    ELSE parse_comment(flg, h, read_cstring(s, h.rd, <<>>))

\* The extra field after its XLEN bytes x1: x2 reads its xlen bytes.
parse_extra_data(flg, s, xlen, x2) ==
    IF ~x2.ok THEN HeaderInfo(FALSE, x2.rd, flg, <<>>, <<>>, <<>>)
    ELSE parse_filename(flg, s,
             HeaderInfo(TRUE, x2.rd, flg,
                        extra_subfields(Slice(s, x2.from, x2.from + xlen), 0),
                        <<>>, <<>>),
             read_cstring(s, x2.rd, <<>>))

\* "Read extra fields if present": x1 reads the two XLEN bytes.
parse_extra(flg, s, x1) ==
    IF ~x1.ok THEN HeaderInfo(FALSE, x1.rd, flg, <<>>, <<>>, <<>>)
    ELSE parse_extra_data(flg, s, FromLE16(s, x1.from),
                          read_exact(s, x1.rd, FromLE16(s, x1.from)))

\* parse_gzip_header(&header, reader) on the file s.  The rendered
\* strings (mtime, extra flags, OS, method) do not feed back into the
\* scan and are left out; the name and the comment are kept as their
\* bytes.
parse_gzip_header(header, s, rd) ==
    IF Bit(header[4], 2)
    THEN parse_extra(header[4], s, read_exact(s, rd, 2))
    ELSE parse_filename(header[4], s,
                        HeaderInfo(TRUE, rd, header[4], <<>>, <<>>, <<>>),
                        read_cstring(s, rd, <<>>))

(***************************************************************************)
(* read_chunk, as steps over its activation record f:                      *)
(*   pc               where the call stands                                *)
(*   rd               the reader                                           *)
(*   header, info     the 10 header bytes and parse_gzip_header's result   *)
(*   compressed_data  the accumulated member bytes                         *)
(*   buffer, i        the block just read (bytes_read = Len(buffer)) and   *)
(*                    the scan index in it                                 *)
(*   found_next       a candidate boundary was confirmed                   *)
(*   result           the io::Result returned, once pc = "return"          *)
(***************************************************************************)
NoInfo == [ok |-> FALSE, rd |-> seek(0), flags |-> <<>>, extra_fields |-> <<>>,
           filename |-> <<>>, comment |-> <<>>]
NoChunk == [chunk_number |-> 0, offset |-> 0, compressed_size |-> 0,
            uncompressed_size |-> 0, compression_ratio |-> <<0, 0>>,
            header_info |-> <<>>, preview_data |-> <<>>]
NoResult == [kind |-> "none", msg |-> "", chunk |-> NoChunk]

Err(kind, msg) == [kind |-> kind, msg |-> msg, chunk |-> NoChunk]
Ok(chunk) == [kind |-> "Ok", msg |-> "", chunk |-> chunk]

\* The record at the call of read_chunk; the reader is the caller's.
Activation(rd) ==
    [pc |-> "start", rd |-> rd, header |-> <<>>, info |-> NoInfo,
     compressed_data |-> <<>>, buffer |-> <<>>, i |-> 0,
     found_next |-> FALSE, result |-> NoResult]

\* A variant that reports bytes without the magic pair as the end of the
\* stream.
CheckMagic_AsEndOfStream(f, rd, header) ==
    IF header[1] # 31 \/ header[2] # 139
    THEN [f EXCEPT !.pc = "return", !.rd = rd, !.header = header,
                   !.result = Err("UnexpectedEof", "End of file")]
    ELSE [f EXCEPT !.pc = "parse", !.rd = rd, !.header = header]

\* The header bytes are in: "Validate GZIP magic numbers".
CheckMagic(f, rd, header) ==
    IF header[1] # 31 \/ header[2] # 139
    THEN [f EXCEPT !.pc = "return", !.rd = rd, !.header = header,
                   !.result = Err("InvalidData", "Invalid GZIP header")]
    ELSE [f EXCEPT !.pc = "parse", !.rd = rd, !.header = header]

\* r is the read_exact of the 10 header bytes: its failure, whatever the
\* number of bytes that were there, is returned as UnexpectedEof.
HeaderRead(s, offset, f, r) ==
    IF ~r.ok
    THEN [f EXCEPT !.pc = "return", !.rd = r.rd,
                   !.result = Err("UnexpectedEof", "End of file")]
    ELSE CheckMagic(f, r.rd, Slice(s, offset, offset + GZIP_HEADER_SIZE))

\* Seek to the offset, read the 10 header bytes, check the magic pair.
StepStart(s, offset, f) ==
    HeaderRead(s, offset, f, read_exact(s, seek(offset), GZIP_HEADER_SIZE))

\* A variant that starts the accumulation buffer empty.
HeaderParsed_EmptyBuffer(f, h) ==
    IF ~h.ok
    THEN [f EXCEPT !.pc = "return", !.rd = h.rd, !.info = h,
                   !.result = Err("UnexpectedEof", "failed to fill whole buffer")]
    ELSE [f EXCEPT !.pc = "read", !.rd = h.rd, !.info = h,
                   !.compressed_data = <<>>, !.found_next = FALSE]

\* h is parse_gzip_header's result: `?` returns its error (the
\* UnexpectedEof of read_exact); otherwise the accumulation buffer is
\* started from the 10 header bytes.
HeaderParsed(f, h) ==
    IF ~h.ok
    THEN [f EXCEPT !.pc = "return", !.rd = h.rd, !.info = h,
                   !.result = Err("UnexpectedEof", "failed to fill whole buffer")]
    ELSE [f EXCEPT !.pc = "read", !.rd = h.rd, !.info = h,
                   !.compressed_data = f.header, !.found_next = FALSE]

StepParse(s, offset, f) == HeaderParsed(f, parse_gzip_header(f.header, s, f.rd))

\* r is the reader.read(&mut buffer): `if bytes_read == 0 { break }`.
BlockRead(s, f, r) ==
    IF r.k = 0
    THEN [f EXCEPT !.pc = "last", !.rd = r.rd, !.buffer = <<>>]
    ELSE [f EXCEPT !.pc = "scan", !.rd = r.rd, !.i = 0,
                   !.buffer = Slice(s, r.from, r.from + r.k)]

\* reader.read(&mut buffer): the next block, or the end of the stream.
StepRead(s, offset, f) == BlockRead(s, f, read(s, f.rd, BlockSize))

\* buffer[i], buffer[i+1] is the magic pair, both bytes inside the block.
IsCandidate(buffer, i) ==
    /\ Len(buffer) - i >= 2
    /\ buffer[i + 1] = 31
    /\ i + 1 < Len(buffer)
    /\ buffer[i + 2] = 139

\* The bytes a candidate at index i closes: what is accumulated plus
\* buffer[..i].
TestData(f) == f.compressed_data \o Slice(f.buffer, 0, f.i)

\* The trial decode of a candidate succeeded: "Valid chunk found".
Confirm(offset, f, test_data) ==
    [f EXCEPT !.pc = "last", !.compressed_data = test_data,
              !.rd = seek(offset + Len(test_data)), !.found_next = TRUE]

\* A variant that seeks back to the start of the block just read.
Backtrack_ToBlockStart(f, current_pos) ==
    [f EXCEPT !.rd = seek(current_pos - Len(f.buffer)), !.i = f.i + 1]

\* The trial decode failed: "restore position and continue".
Backtrack(f, current_pos) == [f EXCEPT !.rd = seek(current_pos), !.i = f.i + 1]

\* One iteration of `for i in 0..bytes_read`: at a candidate the bytes up
\* to it are trial-decoded; a success confirms the boundary and leaves
\* the loop, a failure seeks back to the saved position.
StepScan(s, offset, f) ==
    IF f.i >= Len(f.buffer) THEN [f EXCEPT !.pc = "append"]
    ELSE IF IsCandidate(f.buffer, f.i)
    THEN IF GzDecode(TestData(f)).ok
         THEN Confirm(offset, f, TestData(f))
         ELSE Backtrack(f, stream_position(f.rd))
    ELSE [f EXCEPT !.i = f.i + 1]

\* Past the safety ceiling the accumulated bytes are trial-decoded: the
\* loop is left, or the call fails.
OverCeiling(f, data) ==
    IF GzDecode(data).ok
    THEN [f EXCEPT !.pc = "last", !.compressed_data = data]
    ELSE [f EXCEPT !.pc = "return", !.compressed_data = data,
                   !.result = Err("InvalidData", "Chunk too large")]

\* A variant without the safety limit: the next block is always read.
Appended_CeilingIgnored(f, data) == [f EXCEPT !.pc = "read", !.compressed_data = data]

\* The block has been appended.
Appended(f, data) ==
    IF Len(data) > SafetyCeiling THEN OverCeiling(f, data)
    ELSE [f EXCEPT !.pc = "read", !.compressed_data = data]

\* compressed_data.extend_from_slice(&buffer[..bytes_read]) and the
\* safety limit.
StepAppend(s, offset, f) == Appended(f, f.compressed_data \o f.buffer)

\* for i in (GZIP_HEADER_SIZE..len).rev(): the largest i in
\* [GZIP_HEADER_SIZE, from) whose prefix decodes, or -1.
RECURSIVE ValidEnding(_, _)
ValidEnding(data, from) ==
    IF from - 1 < GZIP_HEADER_SIZE THEN -1
    ELSE IF GzDecode(Slice(data, 0, from - 1)).ok THEN from - 1
    ELSE ValidEnding(data, from - 1)

\* compressed_data.truncate(i) when a valid ending i was found.
Truncated(f, i) ==
    IF i >= 0
    THEN [f EXCEPT !.pc = "final", !.compressed_data = Slice(f.compressed_data, 0, i)]
    ELSE [f EXCEPT !.pc = "final"]

\* "Handle last chunk": without a confirmed boundary the whole buffer is
\* tried, and when it does not decode, the prefixes from the longest down.
StepLast(s, offset, f) ==
    IF ~f.found_next /\ ~GzDecode(f.compressed_data).ok
    THEN Truncated(f, ValidEnding(f.compressed_data, Len(f.compressed_data)))
    ELSE [f EXCEPT !.pc = "final"]

\* A variant that numbers every chunk by the byte offset of its member.
ChunkInfo_NumberedByOffset(chunk_number, offset, data, out, info) ==
    [chunk_number |-> offset, offset |-> offset,
     compressed_size |-> Len(data), uncompressed_size |-> Len(out),
     compression_ratio |-> <<Len(out), Len(data)>>,
     header_info |-> info.flags, preview_data |-> out]

\* The ChunkInfo of a decoded member.
ChunkInfo(chunk_number, offset, data, out, info) ==
    [chunk_number |-> chunk_number, offset |-> offset,
     compressed_size |-> Len(data), uncompressed_size |-> Len(out),
     compression_ratio |-> <<Len(out), Len(data)>>,
     header_info |-> info.flags, preview_data |-> out]

\* A variant that returns a chunk whether the final decode succeeds or not.
Decoded_ChunkAnyway(offset, chunk_number, f, d) ==
    [f EXCEPT !.pc = "return",
              !.result = Ok(ChunkInfo(chunk_number, offset,
                                      f.compressed_data, d.out, f.info))]

\* d is the final decode of the accumulated bytes.
Decoded(offset, chunk_number, f, d) ==
    IF d.ok
    THEN [f EXCEPT !.pc = "return",
                   !.result = Ok(ChunkInfo(chunk_number, offset,
                                           f.compressed_data, d.out, f.info))]
    ELSE [f EXCEPT !.pc = "return",
                   !.result = Err("InvalidData", "Decompression error")]

\* "Final decompression attempt".
StepFinal(s, offset, chunk_number, f) ==
    Decoded(offset, chunk_number, f, GzDecode(f.compressed_data))

\* One step of read_chunk(reader, offset, chunk_number) on the file s.
Step(s, offset, chunk_number, f) ==
    CASE f.pc = "start"  -> StepStart(s, offset, f)
      [] f.pc = "parse"  -> StepParse(s, offset, f)
      [] f.pc = "read"   -> StepRead(s, offset, f)
      [] f.pc = "scan"   -> StepScan(s, offset, f)
      [] f.pc = "append" -> StepAppend(s, offset, f)
      [] f.pc = "last"   -> StepLast(s, offset, f)
      [] f.pc = "final"  -> StepFinal(s, offset, chunk_number, f)
      [] OTHER           -> f

RECURSIVE Run(_, _, _, _)
Run(s, offset, chunk_number, f) ==
    IF f.pc = "return" THEN f ELSE Run(s, offset, chunk_number, Step(s, offset, chunk_number, f))

\* read_chunk(reader, offset, chunk_number) as a function of the file: the
\* io::Result it returns.
read_chunk(s, offset, chunk_number) ==
    Run(s, offset, chunk_number, Activation(seek(0))).result


(***************************************************************************)
(* TailBuffer                                                              *)
(***************************************************************************)
\* TailBuffer::new(capacity)
new(capacity) == [chunks |-> <<>>, capacity |-> capacity, total_seen |-> 0]

\* `self.total_seen % self.capacity` with capacity 0 panics (remainder by
\* zero); it is evaluated when the buffer holds capacity records.
add_panics(tb) == Len(tb.chunks) >= tb.capacity /\ tb.capacity = 0

\* TailBuffer::add up to its panic: `self.total_seen += 1` has run when
\* the remainder is taken.
add_unwound(tb) == [tb EXCEPT !.total_seen = tb.total_seen + 1]

\* A variant that pushes every chunk, full or not.
add_AlwaysPush(tb, chunk) ==
    [tb EXCEPT !.total_seen = tb.total_seen + 1, !.chunks = Append(tb.chunks, chunk)]

\* TailBuffer::add, where it does not panic.
add(tb, chunk) ==
    LET total_seen == tb.total_seen + 1
    IN  IF Len(tb.chunks) < tb.capacity
        THEN [tb EXCEPT !.total_seen = total_seen, !.chunks = Append(tb.chunks, chunk)]
        ELSE LET idx == total_seen % tb.capacity
             IN  IF idx < Len(tb.chunks)
                 THEN [tb EXCEPT !.total_seen = total_seen, !.chunks[idx + 1] = chunk]
                 ELSE [tb EXCEPT !.total_seen = total_seen]

\* A variant that refuses the first chunk of the window.
should_buffer_PastWindowStart(tb, chunk_num) ==
    chunk_num > Max(0, tb.total_seen - tb.capacity)

\* TailBuffer::should_buffer; saturating_sub is max(0, a - b).
should_buffer(tb, chunk_num) == chunk_num >= Max(0, tb.total_seen - tb.capacity)

\* TailBuffer::get_buffered
get_buffered(tb) ==
    IF tb.total_seen <= tb.capacity THEN tb.chunks
    ELSE LET start_idx == tb.total_seen % tb.capacity
         IN  Slice(tb.chunks, start_idx, Len(tb.chunks)) \o Slice(tb.chunks, 0, start_idx)

(***************************************************************************)
(* ChunkFilterSettings.  An Option is a record with a `some` field.       *)
(***************************************************************************)
None == [some |-> FALSE, v |-> 0]
Some(v) == [some |-> TRUE, v |-> v]

\* ChunkFilterSettings::should_print_chunk
should_print_chunk(f, chunk_num, total_chunks) ==
    \/ chunk_num < f.head_chunks
    \/ f.tail_chunks.some /\ chunk_num >= Max(0, total_chunks - f.tail_chunks.v)


(***************************************************************************)
(* The input streams.                                                      *)
(***************************************************************************)
\* Valid members without optional fields: empty payload, one byte, and a
\* payload that is the magic pair itself.
MA == Member(0, <<>>, <<>>)
MB == Member(0, <<>>, <<65>>)
MM == Member(0, <<>>, <<31, 139>>)
\* Valid members with a NAME ("a"), an EXTRA field (one subfield "AB" of
\* two bytes), a COMMENT ("c"), and an empty EXTRA field before a payload
\* holding the magic pair.
MN == Member(8, <<97, 0>>, <<65>>)
ME == Member(4, <<6, 0, 65, 66, 2, 0, 1, 2>>, <<65>>)
MC == Member(16, <<99, 0>>, <<65>>)
MEM == Member(4, <<0, 0>>, <<31, 139>>)
\* A valid member with the header CRC16 (FHCRC).
MH == FixedHeader(2) \o SubSeq(Crc32(FixedHeader(2)), 1, 2) \o StoredBlock(<<65>>)
        \o Crc32(<<65>>) \o LE32(1)
\* Not a member: an EXTRA header with XLEN = 0 followed by two zero bytes
\* and the stored block and trailer of an empty payload.
MX == FixedHeader(4) \o <<0, 0>> \o <<0, 0>> \o StoredBlock(<<>>) \o Crc32(<<>>) \o LE32(0)

\* A valid member whose DEFLATE data is given as bytes.
HuffMember(deflate, payload) ==
    FixedHeader(0) \o deflate \o Crc32(payload) \o LE32(Len(payload))
\* Valid members as a compressor writes them: "A" in a fixed-Huffman
\* block; "AAAAA" in a fixed-Huffman block, a literal and a match of
\* length 4 at distance 1; "BBABAAAAAABBABA" in a dynamic-Huffman block.
MF == HuffMember(<<115, 4, 0>>, <<65>>)
MR == HuffMember(<<115, 116, 4, 2, 0>>, <<65, 65, 65, 65, 65>>)
MD == HuffMember(<<5, 193, 1, 1, 0, 0, 0, 128, 144, 109, 250, 63, 42, 74, 64, 201>>,
                 <<66, 66, 65, 66, 65, 65, 65, 65, 65, 65, 66, 66, 65, 66, 65>>)

RECURSIVE Flatten(_)
Flatten(ms) == IF ms = <<>> THEN <<>> ELSE Head(ms) \o Flatten(Tail(ms))

\* Member lists the streams are built from.
PlainBodies ==
    { <<>>, <<MA>>, <<MB>>, <<MM>>, <<MA, MB>>, <<MB, MA>>, <<MM, MB>>,
      <<MB, MB, MA>>, <<MB, MM, MB>>, <<MB, MB, MB, MB>> }
OptBodies ==
    { <<MN>>, <<ME>>, <<MC>>, <<MEM>>, <<MB, MN>>, <<MN, MB>>, <<MH>>, <<MH, MB>> }
HuffBodies ==
    { <<MF>>, <<MR>>, <<MD>>, <<MF, MB>>, <<MB, MD>>, <<MD, MR, MF>>,
      \* a dynamic block whose literal/length table has one symbol, 256, of
      \* size 12: ten zero bits and a one are read as the literal 0
      <<HuffMember(<<5, 32, 129, 0, 0, 0, 32, 255, 215, 0, 16, 0, 0>>, <<0>>)>> }

\* What follows the members: nothing; a member cut inside its fixed
\* header; a member cut inside its DEFLATE data; a header cut inside its
\* EXTRA field; a few bytes without a magic pair; a long run of them; a
\* fixed header followed by bytes that are no DEFLATE data, past the
\* safety ceiling; and the last two a block longer, so that the ceiling
\* is passed before the stream is exhausted.
Trailings ==
    { <<>>, Slice(MA, 0, 5), Slice(MB, 0, 16), FixedHeader(4) \o <<9>>,
      <<7, 7, 7>>, Fill(7, 2 * BlockSize + 2),
      FixedHeader(0) \o Fill(7, 2 * BlockSize + 4),
      Fill(7, 3 * BlockSize + 2),
      FixedHeader(0) \o Fill(7, 3 * BlockSize + 4) }

Inputs ==
    { [members |-> b, trailing |-> t] : b \in PlainBodies, t \in Trailings }
      \cup { [members |-> b, trailing |-> <<>>] : b \in OptBodies }
      \cup { [members |-> b, trailing |-> t] : b \in HuffBodies, t \in {<<>>, <<7, 7, 7>>} }
      \cup { [members |-> <<>>, trailing |-> MX],
             [members |-> <<>>, trailing |-> MX \o MB] }

\* The chunk filters: none (no -c option), or HEAD with an optional TAIL.
Filters ==
    { None } \cup
    { Some([head_chunks |-> h, tail_chunks |-> t]) :
        h \in 0..MaxHead, t \in { None } \cup { Some(n) : n \in 0..MaxTail } }

(***************************************************************************)
(* State.                                                                  *)
(***************************************************************************)
VARIABLES
    stream,        \* the bytes of the file
    members,       \* the members the file was built from, in order
    trailing,      \* the bytes after the last member
    chunk_filter,  \* ChunkFilterSettings::parse(chunks)
    phase,         \* "loop", "done", "failed", "panicked"; "tail" in TailSpec
    offset, chunk_number, total_compressed_size, total_uncompressed_size,
    tail_buffer,   \* Option<TailBuffer>
    rc,            \* the activation record of the read_chunk call in progress
    emitted,       \* every ChunkInfo read_chunk returned (TailSpec: every record added)
    printed,       \* every ChunkInfo written to the output, in order
    summary,       \* the FileSummary, once printed
    error          \* the io::Error inspect_file returned

vars == <<stream, members, trailing, chunk_filter, phase, offset, chunk_number,
          total_compressed_size, total_uncompressed_size, tail_buffer, rc,
          emitted, printed, summary, error>>

input == <<stream, members, trailing, chunk_filter>>
pass == <<offset, chunk_number, total_compressed_size, total_uncompressed_size,
          tail_buffer, emitted, printed, summary, error>>

NoSummary == [total_chunks |-> 0, total_compressed_size |-> 0,
              total_uncompressed_size |-> 0, average_compression_ratio |-> <<0, 0>>]

\* inspect_file up to the loop: the counters at 0, the filter parsed, the
\* tail buffer made when the filter names a tail.
Init ==
    /\ \E in \in Inputs :
         /\ members = in.members
         /\ trailing = in.trailing
         /\ stream = Flatten(in.members) \o in.trailing
    /\ chunk_filter \in Filters
    /\ phase = "loop"
    /\ offset = 0
    /\ chunk_number = 0
    /\ total_compressed_size = 0
    /\ total_uncompressed_size = 0
    /\ tail_buffer = IF chunk_filter.some /\ chunk_filter.v.tail_chunks.some
                     THEN Some(new(chunk_filter.v.tail_chunks.v))
                     ELSE None
    /\ rc = Activation(seek(0))
    /\ emitted = <<>>
    /\ printed = <<>>
    /\ summary = NoSummary
    /\ error = NoResult

(***************************************************************************)
(* The steps of the read_chunk call in progress.                           *)
(***************************************************************************)
ReadHeader ==
    /\ phase = "loop" /\ rc.pc = "start"
    /\ rc' = StepStart(stream, offset, rc)
    /\ UNCHANGED <<input, phase, pass>>

ParseHeader ==
    /\ phase = "loop" /\ rc.pc = "parse"
    /\ rc' = StepParse(stream, offset, rc)
    /\ UNCHANGED <<input, phase, pass>>

ReadBlock ==
    /\ phase = "loop" /\ rc.pc = "read"
    /\ rc' = StepRead(stream, offset, rc)
    /\ UNCHANGED <<input, phase, pass>>

ScanByte ==
    /\ phase = "loop" /\ rc.pc = "scan"
    /\ rc' = StepScan(stream, offset, rc)
    /\ UNCHANGED <<input, phase, pass>>

AppendBlock ==
    /\ phase = "loop" /\ rc.pc = "append"
    /\ rc' = StepAppend(stream, offset, rc)
    /\ UNCHANGED <<input, phase, pass>>

HandleLast ==
    /\ phase = "loop" /\ rc.pc = "last"
    /\ rc' = StepLast(stream, offset, rc)
    /\ UNCHANGED <<input, phase, pass>>

FinalDecode ==
    /\ phase = "loop" /\ rc.pc = "final"
    /\ rc' = StepFinal(stream, offset, chunk_number, rc)
    /\ UNCHANGED <<input, phase, pass>>

(***************************************************************************)
(* The loop of inspect_file around the call.                               *)
(***************************************************************************)
\* The chunk goes to the tail buffer: past the head, with a tail buffer
\* that accepts its number.
RoutedToTail(f, tb, n) ==
    /\ f.some /\ n >= f.v.head_chunks
    /\ tb.some /\ should_buffer(tb.v, n)

\* The `should_print` of the loop body.
ShouldPrint(f, tb, n) ==
    IF ~f.some THEN TRUE
    ELSE IF n < f.v.head_chunks THEN TRUE
    ELSE IF tb.some THEN FALSE
    ELSE TRUE

\* Ok(info): the chunk is buffered or printed, the totals and the cursor
\* advance, and read_chunk is called again.  A tail buffer of capacity 0
\* panics in add.
ChunkOk ==
    /\ phase = "loop" /\ rc.pc = "return" /\ rc.result.kind = "Ok"
    /\ LET chunk_info == rc.result.chunk
       IN  /\ emitted' = Append(emitted, chunk_info)
           /\ IF RoutedToTail(chunk_filter, tail_buffer, chunk_number)
                 /\ add_panics(tail_buffer.v)
              THEN /\ phase' = "panicked"
                   /\ tail_buffer' = Some(add_unwound(tail_buffer.v))
                   /\ UNCHANGED <<offset, chunk_number, total_compressed_size,
                                  total_uncompressed_size, rc, printed>>
              ELSE /\ tail_buffer' =
                        IF RoutedToTail(chunk_filter, tail_buffer, chunk_number)
                        THEN Some(add(tail_buffer.v, chunk_info))
                        ELSE tail_buffer
                   /\ printed' =
                        IF ShouldPrint(chunk_filter, tail_buffer, chunk_number)
                        THEN Append(printed, chunk_info)
                        ELSE printed
                   /\ total_compressed_size' =
                        total_compressed_size + chunk_info.compressed_size
                   /\ total_uncompressed_size' =
                        total_uncompressed_size + chunk_info.uncompressed_size
                   /\ offset' = offset + chunk_info.compressed_size
                   /\ chunk_number' = chunk_number + 1
                   /\ rc' = Activation(rc.rd)
                   /\ phase' = "loop"
    /\ UNCHANGED <<input, summary, error>>

\* Err of kind UnexpectedEof: the loop is left, the buffered tail chunks
\* are printed and then the summary.
EndOfStream ==
    /\ phase = "loop" /\ rc.pc = "return" /\ rc.result.kind = "UnexpectedEof"
    /\ printed' = IF tail_buffer.some
                  THEN printed \o get_buffered(tail_buffer.v)
                  ELSE printed
    /\ summary' = [total_chunks |-> chunk_number,
                   total_compressed_size |-> total_compressed_size,
                   total_uncompressed_size |-> total_uncompressed_size,
                   average_compression_ratio |->
                       <<total_uncompressed_size, total_compressed_size>>]
    /\ phase' = "done"
    /\ UNCHANGED <<input, offset, chunk_number, total_compressed_size,
                   total_uncompressed_size, tail_buffer, rc, emitted, error>>

\* Any other Err: return Err(e).
Fatal ==
    /\ phase = "loop" /\ rc.pc = "return"
    /\ rc.result.kind \notin {"Ok", "UnexpectedEof"}
    /\ error' = rc.result
    /\ phase' = "failed"
    /\ UNCHANGED <<input, offset, chunk_number, total_compressed_size,
                   total_uncompressed_size, tail_buffer, rc, emitted, printed, summary>>

Next ==
    \/ ReadHeader
    \/ ParseHeader
    \/ ReadBlock
    \/ ScanByte
    \/ AppendBlock
    \/ HandleLast
    \/ FinalDecode
    \/ ChunkOk
    \/ EndOfStream
    \/ Fatal

Spec == Init /\ [][Next]_vars

\* The steps of the read_chunk call in progress.
CallStep ==
    \/ ReadHeader \/ ParseHeader \/ ReadBlock \/ ScanByte
    \/ AppendBlock \/ HandleLast \/ FinalDecode

\* A step of the call can be taken: each value of rc.pc before "return"
\* has its step, and every step changes rc.
CallStepEnabled == phase = "loop" /\ rc.pc # "return"

\* inspect_file runs on its own thread until it returns or panics, so a
\* step that can be taken is taken: weak fairness of each part of the
\* loop.  For the steps of the call, WF_vars(CallStep), which is
\* []<>~ENABLED <<CallStep>>_vars \/ []<><<CallStep>>_vars, is written
\* out with CallStepEnabled for the ENABLED.
LiveSpec ==
    /\ Spec
    /\ WF_vars(ChunkOk) /\ WF_vars(EndOfStream) /\ WF_vars(Fatal)
    /\ ([]<>~CallStepEnabled \/ []<><<CallStep>>_vars)


(***************************************************************************)
(* TailSpec: a TailBuffer on its own, fed the chunks numbered 0, 1, 2, ... *)
(* in that order; emitted is the sequence of the records added.            *)
(***************************************************************************)
\* The record numbered n handed to add; its size is the caller's.
Numbered(n, size) == [NoChunk EXCEPT !.chunk_number = n, !.compressed_size = size]

TailInit ==
    /\ stream = <<>> /\ members = <<>> /\ trailing = <<>>
    /\ chunk_filter = None
    /\ phase = "tail"
    /\ offset = 0 /\ chunk_number = 0
    /\ total_compressed_size = 0 /\ total_uncompressed_size = 0
    /\ \E capacity \in 0..MaxCapacity : tail_buffer = Some(new(capacity))
    /\ rc = Activation(seek(0))
    /\ emitted = <<>>
    /\ printed = <<>>
    /\ summary = NoSummary
    /\ error = NoResult

\* buffer.add(chunk) with the next chunk number.
TailAdd ==
    /\ phase = "tail"
    /\ Len(emitted) < MaxAdds
    /\ ~add_panics(tail_buffer.v)
    /\ \E size \in {Len(MA), Len(MB)} :
         /\ tail_buffer' = Some(add(tail_buffer.v, Numbered(Len(emitted), size)))
         /\ emitted' = Append(emitted, Numbered(Len(emitted), size))
    /\ UNCHANGED <<input, phase, offset, chunk_number, total_compressed_size,
                   total_uncompressed_size, rc, printed, summary, error>>

\* buffer.add(chunk) on a buffer of capacity 0: the record is counted,
\* then the remainder panics.
TailAddPanics ==
    /\ phase = "tail"
    /\ add_panics(tail_buffer.v)
    /\ \E size \in {Len(MA), Len(MB)} :
         emitted' = Append(emitted, Numbered(Len(emitted), size))
    /\ tail_buffer' = Some(add_unwound(tail_buffer.v))
    /\ phase' = "panicked"
    /\ UNCHANGED <<input, offset, chunk_number, total_compressed_size,
                   total_uncompressed_size, rc, printed, summary, error>>

TailNext == TailAdd \/ TailAddPanics

TailSpec == TailInit /\ [][TailNext]_vars


(***************************************************************************)
(* ExtraSpec: the subfield loop of parse_gzip_header on its own, over an   *)
(* extra-field buffer of any content.  stream is the buffer `extra`,       *)
(* offset is `pos`, emitted is `extra_fields`.                             *)
(***************************************************************************)
\* The byte values the buffers are made of: they give the declared
\* lengths 0, 1, 255, 256, 257 and more.
ExtraBytes == {0, 1, 255}

\* The loop condition `pos + 4 <= extra.len()`.
extra_loop(extra, pos) == pos + 4 <= Len(extra)

\* A variant that steps over the subfield header only.
extra_subfield_HeaderOnly(extra, pos, len) ==
    [id |-> extra[pos + 1] * 256 + extra[pos + 2],
     data |-> IF pos + 4 + len <= Len(extra)
              THEN Slice(extra, pos + 4, pos + 4 + len)
              ELSE <<>>,
     pos |-> pos + 4]

\* One iteration of the loop with len the declared length: the (id, data)
\* pushed and the new pos.
extra_subfield(extra, pos, len) ==
    [id |-> extra[pos + 1] * 256 + extra[pos + 2],
     data |-> IF pos + 4 + len <= Len(extra)
              THEN Slice(extra, pos + 4, pos + 4 + len)
              ELSE <<>>,
     pos |-> pos + 4 + len]

\* The indices of `extra` (from 0) that the iteration reads.
extra_reads(extra, pos, len) ==
    (pos..(pos + 3)) \cup
    (IF pos + 4 + len <= Len(extra) THEN (pos + 4)..(pos + 4 + len - 1) ELSE {})

ExtraInit ==
    /\ \E n \in 0..MaxExtra : stream \in [1..n -> ExtraBytes]
    /\ members = <<>> /\ trailing = <<>>
    /\ chunk_filter = None
    /\ phase = "extra"
    /\ offset = 0 /\ chunk_number = 0
    /\ total_compressed_size = 0 /\ total_uncompressed_size = 0
    /\ tail_buffer = None
    /\ rc = Activation(seek(0))
    /\ emitted = <<>>
    /\ printed = <<>>
    /\ summary = NoSummary
    /\ error = NoResult

\* The loop body: the subfield at pos is pushed and pos moves past it.
ExtraSubfield ==
    /\ phase = "extra"
    /\ extra_loop(stream, offset)
    /\ emitted' = Append(emitted,
                         [id |-> extra_subfield(stream, offset, FromLE16(stream, offset + 2)).id,
                          data |-> extra_subfield(stream, offset, FromLE16(stream, offset + 2)).data])
    /\ offset' = extra_subfield(stream, offset, FromLE16(stream, offset + 2)).pos
    /\ UNCHANGED <<input, phase, chunk_number, total_compressed_size,
                   total_uncompressed_size, tail_buffer, rc, printed, summary, error>>

\* The loop is left.
ExtraLoopExit ==
    /\ phase = "extra"
    /\ ~extra_loop(stream, offset)
    /\ phase' = "parsed"
    /\ UNCHANGED <<input, offset, chunk_number, total_compressed_size,
                   total_uncompressed_size, tail_buffer, rc, emitted, printed,
                   summary, error>>

ExtraNext == ExtraSubfield \/ ExtraLoopExit

\* The loop runs on: nothing else is scheduled while parse_gzip_header
\* is in it.
ExtraSpec == ExtraInit /\ [][ExtraNext]_vars /\ WF_vars(ExtraNext)


(***************************************************************************)
(* Vocabulary of the properties.                                           *)
(***************************************************************************)
\* The pass is over: the loop was left normally, or inspect_file returned
\* the error.
Finished == phase \in {"done", "failed"}

\* The offset in the stream of the first byte of the k-th member (k from 1).
MemberStart(k) == Len(Flatten(SubSeq(members, 1, k - 1)))

\* The chunks are laid end to end from the start of the stream.
Contiguous(chunks) ==
    \A k \in DOMAIN chunks :
        chunks[k].offset = IF k = 1 THEN 0
                           ELSE chunks[k - 1].offset + chunks[k - 1].compressed_size

RECURSIVE SumSizes(_)
SumSizes(chunks) ==
    IF chunks = <<>> THEN 0
    ELSE chunks[1].compressed_size + SumSizes(Tail(chunks))

\* The bytes hold the pair 0x1F 0x8B.
ContainsMagic(bytes) ==
    \E k \in 1..(Len(bytes) - 1) : bytes[k] = 31 /\ bytes[k + 1] = 139

Numbers(chunks) == [k \in DOMAIN chunks |-> chunks[k].chunk_number]

Range(seq) == {seq[k] : k \in DOMAIN seq}

\* C1: a stream that is N >= 1 valid members end to end, whatever their
\* header flags, is read as exactly N chunks: the first at offset 0, each
\* next one where the previous one ended, chunk k at the first byte of
\* member k.
C1_OneChunkPerMember ==
    (Finished /\ trailing = <<>> /\ Len(members) >= 1) =>
        /\ Len(emitted) = Len(members)
        /\ Contiguous(emitted)
        /\ \A k \in DOMAIN emitted : emitted[k].offset = MemberStart(k)

\* C2: when the iteration ends normally, the chunk ranges are pairwise
\* disjoint, laid end to end, and their sizes add up to the stream length.
C2_ChunksPartitionStream ==
    phase = "done" =>
        /\ Contiguous(emitted)
        /\ SumSizes(emitted) = Len(stream)

\* C3: a magic pair inside the payload never ends a chunk early: a
\* candidate is accepted only when the bytes accumulated up to it decode
\* as a complete member, and a stream of one member whose payload holds
\* the pair is read as exactly one chunk spanning the whole member.
C3_PayloadMagicIsNoBoundary ==
    /\ rc.found_next => GzDecode(rc.compressed_data).ok
    /\ (Finished /\ trailing = <<>> /\ Len(members) = 1
          /\ ContainsMagic(GzDecode(members[1]).out)) =>
            /\ Len(emitted) = 1
            /\ emitted[1].offset = 0
            /\ emitted[1].compressed_size = Len(stream)

\* The part of C3 that the code keeps: members without optional header
\* fields.
PayloadMagicPlainMember ==
    (Finished /\ trailing = <<>> /\ Len(members) = 1 /\ members[1][4] = 0
       /\ ContainsMagic(GzDecode(members[1]).out)) =>
        /\ Len(emitted) = 1
        /\ emitted[1].offset = 0
        /\ emitted[1].compressed_size = Len(stream)


\* C4: with capacity c >= 1, after add was called with the chunks numbered
\* 0..n-1 in that order, get_buffered returns the chunks numbered
\* max(0, n-c)..n-1 in ascending order (capacity 3 and 7 adds: 4, 5, 6).
C4_LastChunksInOrder ==
    (phase = "tail" /\ tail_buffer.v.capacity >= 1) =>
        Numbers(get_buffered(tail_buffer.v)) =
            [k \in 1..Min(Len(emitted), tail_buffer.v.capacity) |->
                Max(0, Len(emitted) - tail_buffer.v.capacity) + k - 1]

\* C5: after every add the buffer holds exactly the most recent
\* min(total_seen, capacity) records added: when full, add evicts the
\* oldest record and no other.
C5_HoldsMostRecent ==
    (phase = "tail" /\ tail_buffer.v.capacity >= 1) =>
        /\ tail_buffer.v.total_seen = Len(emitted)
        /\ Len(tail_buffer.v.chunks) = Min(Len(emitted), tail_buffer.v.capacity)
        /\ Range(tail_buffer.v.chunks) =
             {emitted[k] : k \in (Max(0, Len(emitted) - tail_buffer.v.capacity) + 1)
                                 ..Len(emitted)}

\* C6: the iteration ends without an error only when no bytes at all are
\* left at the cursor; a stream that ends inside the 10-byte header or
\* inside the EXTRA field is a fatal error.
C6_NormalEndOnlyAtEnd ==
    /\ phase = "done" => offset >= Len(stream)
    /\ (phase = "loop" /\ rc.pc = "return" /\ offset < Len(stream)) =>
            rc.result.kind # "UnexpectedEof"

\* t is the start of a member, cut after its header and before the end of
\* its deflate data and trailer.
IsTruncatedMember(t) ==
    /\ GzHeaderEnd(t) >= 0
    /\ \E m \in {MA, MB, MM} : Len(t) < Len(m) /\ t = Slice(m, 0, Len(t))

\* The offset in the stream of the first byte after the members, where a
\* truncated final member starts.
TruncatedStart == Len(stream) - Len(trailing)

\* The chunk lies inside the stream.
WithinStream(chunk) == chunk.offset + chunk.compressed_size <= Len(stream)

\* The chunk holds no byte of the truncated final member, or it starts
\* where that member starts and is a prefix of it that decodes.
TruncatedLeftOutOrCut(chunk) ==
    \/ chunk.offset + chunk.compressed_size <= TruncatedStart
    \/ /\ chunk.offset = TruncatedStart
       /\ GzDecode(Slice(stream, chunk.offset,
                         chunk.offset + chunk.compressed_size)).ok

\* C7: every chunk read_chunk returns has offset + compressed_size <= the
\* stream length, also when the final member is truncated (valid header,
\* incomplete deflate data): such a member is reported as a decode error
\* with no chunk emitted for it, or emitted cut to a prefix that decodes.
\* So no chunk returned holds bytes of the truncated member other than
\* such a prefix, and the call made at its first byte returns a chunk or
\* the decode error.
C7_SizeWithinStream ==
    /\ \A k \in DOMAIN emitted : WithinStream(emitted[k])
    /\ (rc.pc = "return" /\ rc.result.kind = "Ok") => WithinStream(rc.result.chunk)
    /\ (IsTruncatedMember(trailing) /\ rc.pc = "return" /\ rc.result.kind = "Ok") =>
            TruncatedLeftOutOrCut(rc.result.chunk)
    /\ (IsTruncatedMember(trailing) /\ phase \in {"loop", "failed"}
            /\ rc.pc = "return" /\ offset = TruncatedStart) =>
            rc.result.kind = "Ok" \/ rc.result = Err("InvalidData", "Decompression error")

\* The chunk numbered n is surfaced by the selection over `total` chunks.
Surfaced(n, total) ==
    \/ ~chunk_filter.some
    \/ should_print_chunk(chunk_filter.v, n, total)

\* C8: when read_chunk fails fatally after k chunks, every one of the k
\* chunks that the head/tail selection surfaces has been written to the
\* output, those routed into the tail buffer included.
C8_ChunksBeforeFailureAvailable ==
    phase = "failed" =>
        /\ \A k \in DOMAIN emitted :
              Surfaced(k - 1, Len(emitted)) => emitted[k] \in Range(printed)
        /\ tail_buffer.some => Range(tail_buffer.v.chunks) \subseteq Range(printed)

\* C9: the i-th chunk returned (from 0) has chunk_number = i and its
\* offset is the running cursor, the sum of the sizes of the chunks
\* before it; both grow strictly from one chunk to the next.
C9_NumbersAndOffsets ==
    /\ \A k \in DOMAIN emitted :
          /\ emitted[k].chunk_number = k - 1
          /\ emitted[k].offset = SumSizes(SubSeq(emitted, 1, k - 1))
          /\ k > 1 => /\ emitted[k].chunk_number > emitted[k - 1].chunk_number
                      /\ emitted[k].offset > emitted[k - 1].offset
    /\ (phase = "loop" /\ rc.pc = "return" /\ rc.result.kind = "Ok") =>
          /\ rc.result.chunk.chunk_number = chunk_number
          /\ rc.result.chunk.offset = offset
          /\ rc.result.chunk.compressed_size > 0

\* C9, its case: a fourth chunk has been returned.
C9_Witness ==
    /\ Len(emitted) = 4
    /\ emitted[4].chunk_number = 3
    /\ emitted[4].offset = 3 * Len(MB)

\* The result of the second call is the same chunk: same decoded bytes,
\* same sizes.
SameChunk(res, chunk) ==
    /\ res.kind = "Ok"
    /\ res.chunk.preview_data = chunk.preview_data
    /\ res.chunk.uncompressed_size = chunk.uncompressed_size
    /\ res.chunk.compressed_size = chunk.compressed_size

\* read_chunk at offset 0 on the isolated span of the chunk.
Reread(chunk) ==
    read_chunk(Slice(stream, chunk.offset, chunk.offset + chunk.compressed_size),
               0, chunk.chunk_number)

\* C10: for every chunk read_chunk returns at offset o with compressed
\* size c, read_chunk at offset 0 on the span S[o..o+c) alone returns the
\* same decoded bytes, the same uncompressed_size and compressed_size c.
C10_RoundTrip ==
    (phase = "loop" /\ rc.pc = "return" /\ rc.result.kind = "Ok") =>
        SameChunk(Reread(rc.result.chunk), rc.result.chunk)


\* What read_chunk returns on ten bytes without the magic pair, and on a
\* member cut inside its DEFLATE data.
MalformedMagicError == read_chunk(Fill(7, GZIP_HEADER_SIZE), 0, 0)
DecodeFailureError == read_chunk(Slice(MB, 0, 16), 0, 0)

\* C11: the error read_chunk returns when the accumulated bytes pass the
\* safety ceiling and do not decode can be told apart by its kind from
\* the malformed-magic error and from the decode-failure error.
C11_CeilingErrorDistinctKind ==
    (rc.pc = "return" /\ rc.result.msg = "Chunk too large") =>
        /\ MalformedMagicError.msg = "Invalid GZIP header"
        /\ DecodeFailureError.msg = "Decompression error"
        /\ rc.result.kind # MalformedMagicError.kind
        /\ rc.result.kind # DecodeFailureError.kind

\* The call in progress was made with at least 10 bytes at the cursor, the
\* first two of which are not the magic pair.
AtMalformedMagic ==
    /\ Len(stream) - offset >= GZIP_HEADER_SIZE
    /\ ~(stream[offset + 1] = 31 /\ stream[offset + 2] = 139)

\* C12: with at least 10 bytes at the offset and the first two not
\* 0x1F 0x8B, read_chunk returns a fatal error, not the end-of-stream
\* signal, and no chunk; the iteration stops at that offset and does not
\* skip forward to a later member.
C12_MalformedMagicIsFatal ==
    /\ (phase = "loop" /\ rc.pc = "return" /\ AtMalformedMagic) =>
          rc.result = Err("InvalidData", "Invalid GZIP header")
    /\ (phase \in {"loop", "done"} /\ AtMalformedMagic) =>
          rc.pc \in {"start", "return"}
    /\ (phase = "done") => ~AtMalformedMagic
    /\ (phase = "failed" /\ error.msg = "Invalid GZIP header") =>
          /\ AtMalformedMagic
          /\ offset = SumSizes(emitted)
          /\ chunk_number = Len(emitted)

\* C12, its case: after a chunk, the cursor stands on bytes without the
\* magic pair, a member follows further on, and the pass has failed there.
C12_Witness ==
    /\ phase = "failed" /\ error = Err("InvalidData", "Invalid GZIP header")
    /\ Len(emitted) = 1 /\ offset = emitted[1].compressed_size
    /\ AtMalformedMagic
    /\ \E k \in (offset + 1)..(Len(stream) - Len(MB)) :
          GzDecode(Slice(stream, k, Len(stream))).ok


\* The end of the EXTRA, NAME and COMMENT fields the flag byte of `data`
\* announces, in that order, counted from the start of the header.
AfterExtra(data) ==
    IF Bit(data[4], 2) THEN GZIP_HEADER_SIZE + 2 + FromLE16(data, GZIP_HEADER_SIZE)
    ELSE GZIP_HEADER_SIZE
AfterString(data, announced, p) == IF announced THEN ZeroEnd(data, p) ELSE p
AnnouncedEnd(data) ==
    AfterString(data, Bit(data[4], 4),
                AfterString(data, Bit(data[4], 3), AfterExtra(data)))

\* parse_gzip_header has just returned Ok in the call in progress.
HeaderJustParsed ==
    phase = "loop" /\ rc.pc = "read" /\ Len(rc.compressed_data) = GZIP_HEADER_SIZE

\* The call in progress was made at the first byte of the k-th member.
AtMember(k) == k \in 1..Len(members) /\ offset = MemberStart(k)

\* C13: parse_gzip_header advances the source by exactly the optional
\* fields the flag byte announces (2 + XLEN bytes for EXTRA, the filename
\* and the comment each with its zero terminator), and by nothing when
\* none is announced, so that the source then stands at the first byte of
\* the compressed payload.
C13_HeaderConsumesAnnouncedFields ==
    HeaderJustParsed =>
        /\ stream_position(rc.rd) =
              offset + AnnouncedEnd(Slice(stream, offset, Len(stream)))
        /\ \A k \in 1..Len(members) :
              AtMember(k) =>
                 stream_position(rc.rd) = offset + GzHeaderEnd(members[k])

\* The part of C13 that the code keeps: the EXTRA, NAME and COMMENT
\* fields are consumed whole, and nothing else.
AnnouncedFieldsConsumed ==
    HeaderJustParsed =>
        stream_position(rc.rd) =
            offset + AnnouncedEnd(Slice(stream, offset, Len(stream)))


\* C14: should_buffer(chunk_num) is true exactly when chunk_num is one of
\* the last `capacity` chunks seen so far:
\* max(0, total_seen - capacity) <= chunk_num < total_seen.
C14_ShouldBufferWindow ==
    phase = "tail" =>
        \A n \in 0..MaxAdds :
            should_buffer(tail_buffer.v, n) <=>
                /\ Max(0, tail_buffer.v.total_seen - tail_buffer.v.capacity) <= n
                /\ n < tail_buffer.v.total_seen

\* C14, as the code has it: should_buffer(chunk_num) is true exactly when
\* chunk_num >= max(0, total_seen - capacity); there is no upper end, so
\* it is true for the numbers of chunks not added yet
\* (chunk_num >= total_seen).
C14_ShouldBufferFromWindowStart ==
    phase = "tail" =>
        \A n \in 0..(MaxAdds + 1) :
            should_buffer(tail_buffer.v, n) <=>
                n >= Max(0, tail_buffer.v.total_seen - tail_buffer.v.capacity)

\* C14, its case: more adds than the capacity; a chunk before the window
\* is refused, the chunks of the window and the next chunk to come are
\* accepted.
C14_Witness ==
    /\ phase = "tail"
    /\ tail_buffer.v.capacity = 2 /\ tail_buffer.v.total_seen = 5
    /\ ~should_buffer(tail_buffer.v, 2)
    /\ should_buffer(tail_buffer.v, 3)
    /\ should_buffer(tail_buffer.v, 5)

\* C15: after any sequence of add calls on a buffer of capacity c >= 1,
\* chunks.len() = min(total_seen, c) <= c and total_seen is the number of
\* add calls made.
C15_LengthAndCount ==
    (phase = "tail" /\ tail_buffer.v.capacity >= 1) =>
        /\ Len(tail_buffer.v.chunks) =
              Min(tail_buffer.v.total_seen, tail_buffer.v.capacity)
        /\ Len(tail_buffer.v.chunks) <= tail_buffer.v.capacity
        /\ tail_buffer.v.total_seen = Len(emitted)

\* C15, its case: more adds than the capacity.
C15_Witness ==
    /\ phase = "tail" /\ tail_buffer.v.capacity = 2
    /\ Len(emitted) = 5 /\ tail_buffer.v.total_seen = 5
    /\ Len(tail_buffer.v.chunks) = 2


\* The numbers, in ascending order, of the chunks of a stream of `total`
\* chunks that should_print_chunk selects (all of them without a filter).
SelectedNumbers(total) ==
    SelectSeq([k \in 1..total |-> k - 1], LAMBDA n : Surfaced(n, total))

\* C16: for every chunk filter and every stream of N chunks processed
\* without error, the chunks inspect_file surfaces, printed at once or
\* flushed from the tail buffer at the end, are exactly the chunks i with
\* should_print_chunk(i, N), each once and in ascending order.
C16_SurfacedAsSelected ==
    phase = "done" =>
        /\ Numbers(printed) = SelectedNumbers(Len(emitted))
        /\ \A k \in DOMAIN printed : printed[k] = emitted[printed[k].chunk_number + 1]


\* The call in progress is past parse_gzip_header and stands between two
\* reads: every byte read so far has been appended.
BetweenReads == phase = "loop" /\ rc.pc = "read"

\* C17: at every point of read_chunk after the header has been decoded,
\* the accumulated buffer is the stream from the member's start offset up
\* to the last byte appended (the 10-byte header, every optional-field
\* byte the header decoder consumed, then the blocks read), so its length
\* is the number of stream bytes consumed since the start offset.
C17_BufferIsStreamSpan ==
    /\ BetweenReads =>
          /\ rc.compressed_data =
                Slice(stream, offset, offset + Len(rc.compressed_data))
          /\ Len(rc.compressed_data) = stream_position(rc.rd) - offset
    /\ (phase = "loop" /\ rc.pc \in {"scan", "append"}) =>
          /\ rc.compressed_data =
                Slice(stream, offset, offset + Len(rc.compressed_data))
          /\ Len(rc.compressed_data) + Len(rc.buffer) = stream_position(rc.rd) - offset

\* The part of C17 that the code keeps: members without EXTRA, NAME or
\* COMMENT fields.
BufferIsStreamSpanPlainHeader ==
    (rc.info.ok /\ Len(rc.header) = GZIP_HEADER_SIZE
       /\ ~Bit(rc.header[4], 2) /\ ~Bit(rc.header[4], 3) /\ ~Bit(rc.header[4], 4))
      => C17_BufferIsStreamSpan


\* The absolute position of the candidate the scan stands on: the block
\* in rc.buffer ends at the reader's position.
CandidatePosition == stream_position(rc.rd) - Len(rc.buffer) + rc.i

\* The step that confirms a candidate.
ConfirmsCandidate == phase = "loop" /\ rc.pc = "scan" /\ rc'.found_next

\* The step that builds the chunk of a confirmed candidate.
ReportsConfirmed ==
    phase = "loop" /\ rc.pc = "final" /\ rc.found_next /\ rc'.result.kind = "Ok"

\* What C18 asks of the two steps.
ConfirmedAtCandidate ==
    /\ ConfirmsCandidate =>
          /\ stream[CandidatePosition + 1] = 31
          /\ stream[CandidatePosition + 2] = 139
          /\ Len(rc'.compressed_data) = CandidatePosition - offset
          /\ stream_position(rc'.rd) = CandidatePosition
    /\ ReportsConfirmed =>
          /\ rc'.result.chunk.compressed_size = Len(rc.compressed_data)
          /\ offset + rc'.result.chunk.compressed_size = stream_position(rc'.rd)

\* C18: when read_chunk confirms a candidate, the compressed_size it
\* reports is the absolute position of the candidate magic pair minus the
\* member's start offset, and the stream is left exactly at that pair, so
\* that the next call starts on the next member's first byte.
C18_ConfirmedSizeAndPosition == [][ConfirmedAtCandidate]_vars

\* The part of C18 that the code keeps: members without EXTRA, NAME or
\* COMMENT fields.
ConfirmedAtCandidatePlainHeader ==
    [][(Len(rc.header) = GZIP_HEADER_SIZE
          /\ ~Bit(rc.header[4], 2) /\ ~Bit(rc.header[4], 3) /\ ~Bit(rc.header[4], 4))
         => ConfirmedAtCandidate]_vars


\* The scan of a block is over, the block ends with 0x1F, the next byte
\* of the stream is 0x8B, and the bytes of the call up to that pair decode
\* as a complete member: a member boundary lies across two read blocks.
StraddledBoundary ==
    /\ phase = "loop" /\ rc.pc = "append"
    /\ Len(rc.buffer) >= 1 /\ rc.buffer[Len(rc.buffer)] = 31
    /\ stream_position(rc.rd) < Len(stream)
    /\ stream[stream_position(rc.rd) + 1] = 139
    /\ GzDecode(rc.compressed_data \o Slice(rc.buffer, 0, Len(rc.buffer) - 1)).ok

\* The call ends with the chunk of the given size.
EndsWithSize(res, size) == res.kind = "Ok" /\ res.chunk.compressed_size = size

\* C19: a magic pair whose 0x1F is the last byte of one read block and
\* whose 0x8B is the first byte of the next is still examined as a
\* candidate on the following iteration, so a member boundary across two
\* read blocks is detected like one inside a block: the call ends its
\* chunk at that pair.
C19_StraddledBoundaryDetected ==
    StraddledBoundary =>
        EndsWithSize(Run(stream, offset, chunk_number, rc).result,
                     stream_position(rc.rd) - 1 - offset)


\* The lengths L, header size <= L < Len(data), whose prefix decodes.
DecodablePrefixes(data) ==
    {L \in GZIP_HEADER_SIZE..(Len(data) - 1) : GzDecode(Slice(data, 0, L)).ok}

\* The call ends as C20 says, given the decodable prefixes of what it had
\* accumulated.
EndsAtLargestPrefix(res, prefixes) ==
    IF prefixes = {}
    THEN res = Err("InvalidData", "Decompression error")
    ELSE /\ res.kind = "Ok"
         /\ res.chunk.compressed_size \in prefixes
         /\ \A L \in prefixes : L <= res.chunk.compressed_size

\* The stream is exhausted, no boundary was confirmed, and the whole
\* accumulated buffer does not decode.
ExhaustedUndecodable ==
    /\ phase = "loop" /\ ~rc.found_next
    /\ stream_position(rc.rd) >= Len(stream)
    /\ ~GzDecode(rc.compressed_data).ok

\* C20: when the stream is exhausted with no confirmed boundary and the
\* whole accumulated buffer does not decode, read_chunk reports as
\* compressed_size the largest length L, header size <= L < buffer
\* length, whose prefix decodes, and drops the bytes beyond L; when there
\* is no such L it returns a decode error and no chunk.
C20_LargestDecodablePrefix ==
    (rc.pc = "last" /\ ExhaustedUndecodable) =>
        EndsAtLargestPrefix(Run(stream, offset, chunk_number, rc).result,
                            DecodablePrefixes(rc.compressed_data))

\* C20, its case: the backward search has run over a member cut inside
\* its DEFLATE data, and the final decode is next.
C20_Witness ==
    /\ rc.pc = "final" /\ ExhaustedUndecodable
    /\ Len(rc.compressed_data) > GZIP_HEADER_SIZE
    /\ rc.compressed_data = Slice(stream, offset, Len(stream))


\* The stream is one well-formed member followed by at least one byte, the
\* bytes after the member holding no magic pair.
MemberThenGarbage ==
    /\ Len(members) = 1 /\ GzDecode(members[1]).used = Len(members[1])
    /\ trailing # <<>> /\ ~ContainsMagic(trailing)

\* C21: on a stream made of one well-formed member followed by garbage
\* bytes without a magic pair, read_chunk at offset 0 returns one chunk
\* whose compressed_size is the length of the member: the garbage bytes
\* are left out of the chunk.
C21_TrailingGarbageLeftOut ==
    (MemberThenGarbage /\ phase = "loop" /\ offset = 0 /\ rc.pc = "return") =>
        EndsWithSize(rc.result, Len(members[1]))


\* The block about to be appended takes the accumulated buffer past the
\* safety ceiling.
PassesCeiling ==
    /\ phase = "loop" /\ rc.pc = "append"
    /\ Len(rc.compressed_data) + Len(rc.buffer) > SafetyCeiling

\* The call ends at the activation record e without another read, on the
\* bytes `data`: with them as its chunk when they decode, with the
\* size-exceeded error when they do not.
EndsAtCeiling(e, rd, data) ==
    /\ e.rd = rd
    /\ e.compressed_data = data
    /\ IF GzDecode(data).ok
       THEN /\ EndsWithSize(e.result, Len(data))
            /\ e.result.chunk.preview_data = GzDecode(data).out
       ELSE e.result = Err("InvalidData", "Chunk too large")

\* C22: in every state of read_chunk the accumulated buffer is at most
\* the safety ceiling plus one read block long, and when an append takes
\* it past the ceiling no further block is read: the buffer is
\* trial-decoded, and the call returns it as its chunk (decode succeeded)
\* or fails with the size-exceeded error (decode failed).
C22_CeilingBoundsBuffer ==
    /\ phase = "loop" => Len(rc.compressed_data) <= SafetyCeiling + BlockSize
    /\ (phase = "loop" /\ rc.pc = "read") => Len(rc.compressed_data) <= SafetyCeiling
    /\ PassesCeiling =>
          EndsAtCeiling(Run(stream, offset, chunk_number, rc), rc.rd,
                        rc.compressed_data \o rc.buffer)

\* C22, its case: the ceiling was passed with bytes of the stream still
\* unread and the call has failed with the size-exceeded error.
C22_Witness ==
    /\ phase = "loop" /\ rc.pc = "return"
    /\ rc.result = Err("InvalidData", "Chunk too large")
    /\ Len(rc.compressed_data) > SafetyCeiling
    /\ stream_position(rc.rd) < Len(stream)


\* The scan stands at a candidate whose trial decode fails.
AtFailingCandidate ==
    /\ phase = "loop" /\ rc.pc = "scan"
    /\ rc.i < Len(rc.buffer) /\ IsCandidate(rc.buffer, rc.i)
    /\ ~GzDecode(TestData(rc)).ok

\* The step taken at a failing candidate leaves the read position, the
\* accumulated bytes, found_next and the block as they were, and moves
\* the scan to the next byte of the block.
FailedTrialRestores ==
    AtFailingCandidate =>
        /\ stream_position(rc'.rd) = stream_position(rc.rd)
        /\ rc'.compressed_data = rc.compressed_data
        /\ rc'.found_next = rc.found_next
        /\ rc'.buffer = rc.buffer
        /\ rc'.pc = "scan" /\ rc'.i = rc.i + 1
        /\ rc'.result = rc.result
        /\ UNCHANGED <<input, phase, pass>>

\* C23: a failed trial decode of a candidate changes nothing observable:
\* the read position of the stream, the accumulated compressed-data
\* buffer and found_next are after it what they were before it, and the
\* scan resumes at the next byte of the same block.
C23_FailedTrialChangesNothing == [][FailedTrialRestores]_vars

\* C23, its case: the trial at the magic pair inside a payload has just
\* failed and the scan stands on the byte after the 0x1F.
C23_Witness ==
    /\ phase = "loop" /\ rc.pc = "scan" /\ rc.i >= 1
    /\ IsCandidate(rc.buffer, rc.i - 1)
    /\ ~GzDecode(rc.compressed_data \o Slice(rc.buffer, 0, rc.i - 1)).ok
    /\ ~rc.found_next
    /\ stream_position(rc.rd) = offset + Len(rc.compressed_data) + Len(rc.buffer)


\* The bytes taken by the data of the recorded subfields.
RECURSIVE SumDataLengths(_)
SumDataLengths(fields) ==
    IF fields = <<>> THEN 0
    ELSE Len(fields[1].data) + SumDataLengths(Tail(fields))

\* The subfield whose header is at `at` was recorded as `field`: with the
\* bytes after its header when its declared length fits the buffer, and
\* otherwise with no data and as the last one.
DeclaredOrEmpty(extra, at, field, last) ==
    /\ at + 4 <= Len(extra)
    /\ field.id = extra[at + 1] * 256 + extra[at + 2]
    /\ IF at + 4 + FromLE16(extra, at + 2) <= Len(extra)
       THEN field.data = Slice(extra, at + 4, at + 4 + FromLE16(extra, at + 2))
       ELSE field.data = <<>> /\ last

\* The subfield recorded k-th was read at this position of the buffer.
SubfieldStart(k) ==
    4 * (k - 1) + SumDataLengths(SubSeq(emitted, 1, k - 1))

\* The loop of ExtraSpec is safe in this state: the iteration about to
\* run reads inside the buffer; what has been recorded is what the loop
\* computes; a recorded subfield has data of its declared length, or no
\* data when that length overruns the buffer, and then it is the last;
\* and the loop is left only with fewer than 4 bytes remaining.
ExtraLoopSafe ==
    /\ phase \in {"extra", "parsed"}
    /\ (phase = "extra" /\ extra_loop(stream, offset)) =>
          extra_reads(stream, offset, FromLE16(stream, offset + 2))
              \subseteq 0..(Len(stream) - 1)
    /\ phase = "parsed" =>
          /\ Len(stream) - offset < 4
          /\ emitted = extra_subfields(stream, 0)
    /\ \A k \in DOMAIN emitted :
          DeclaredOrEmpty(stream, SubfieldStart(k), emitted[k], k = Len(emitted))

\* C24: for every content of the extra-field buffer the subfield loop
\* of parse_gzip_header terminates, without failure and without indexing
\* outside the buffer: it stops when fewer than 4 bytes remain, and a
\* subfield whose declared length overruns the buffer is recorded with
\* empty data and is the last one recorded.
C24_ExtraLoopSafeAndTerminates == []ExtraLoopSafe /\ <>(phase = "parsed")

\* C24, its case: the loop has ended after a complete subfield and one
\* whose declared length overruns the buffer.
C24_Witness ==
    /\ phase = "parsed" /\ Len(emitted) = 2
    /\ Len(emitted[1].data) = 1
    /\ emitted[2].data = <<>>
    /\ FromLE16(stream, SubfieldStart(2) + 2) > 0
    /\ offset > Len(stream)


\* The chunk's size covers at least the fixed header, and is the divisor
\* of its ratio.
DivisorAtLeastHeader(chunk) ==
    /\ chunk.compressed_size >= GZIP_HEADER_SIZE
    /\ chunk.compression_ratio = <<chunk.uncompressed_size, chunk.compressed_size>>

\* C25: every chunk read_chunk returns has compressed_size >= 10, the
\* size of the fixed header, on every path, the backward search for a
\* valid ending included (it only cuts to lengths of 10 and more), so
\* the divisor of the per-chunk ratio is never zero.
C25_SizeAtLeastHeader ==
    /\ \A k \in DOMAIN emitted : DivisorAtLeastHeader(emitted[k])
    /\ (rc.pc = "return" /\ rc.result.kind = "Ok") =>
          DivisorAtLeastHeader(rc.result.chunk)
    /\ (phase = "loop" /\ rc.pc \in {"read", "scan", "append", "last", "final"}) =>
          Len(rc.compressed_data) >= GZIP_HEADER_SIZE
    /\ (phase = "loop" /\ rc.pc = "last") =>
          ValidEnding(rc.compressed_data, Len(rc.compressed_data))
              \in {-1} \cup (GZIP_HEADER_SIZE..Len(rc.compressed_data))

\* C25, its case: the chunk of a one-byte member has been returned with
\* the ratio 1 / 24, and the call after it has run the backward search
\* on a member cut inside its DEFLATE data.
C25_Witness ==
    /\ Len(emitted) >= 1
    /\ emitted[Len(emitted)].compression_ratio = <<1, Len(MB)>>
    /\ phase = "loop" /\ rc.pc = "final" /\ ~rc.found_next
    /\ ~GzDecode(rc.compressed_data).ok
    /\ Len(rc.compressed_data) = 16


\* The cursor of the pass and the reader of the call stay inside the
\* stream.
CursorWithinStream ==
    /\ offset <= Len(stream)
    /\ stream_position(rc.rd) <= Len(stream)

\* A step that takes a chunk moves the cursor forward by at least one
\* byte; a step that reads a non-empty block moves the reader forward;
\* and no step of a call moves the reader back.
CursorAdvances ==
    /\ (phase = "loop" /\ rc.pc = "return" /\ rc.result.kind = "Ok" /\ phase' = "loop") =>
            offset' >= offset + 1
    /\ (phase = "loop" /\ rc.pc = "read" /\ rc'.pc = "scan") =>
            stream_position(rc'.rd) > stream_position(rc.rd)
    /\ (phase = "loop" /\ rc.pc \in {"read", "scan", "append"}) =>
            stream_position(rc'.rd) >= stream_position(rc.rd) \/ rc'.found_next

\* C26: on every finite stream the chunk iteration terminates, with the
\* end-of-stream signal or with a fatal error, after finitely many
\* read_chunk calls: each successful call advances the cursor by at
\* least one byte, the cursor never exceeds the stream length, and each
\* call finishes after finitely many block reads.
C26_IterationTerminates ==
    /\ []CursorWithinStream
    /\ [][CursorAdvances]_vars
    /\ <>Finished

\* What holds of C26 in the code: the pass always leaves the loop, by
\* one of the two ends or by the panic of the tail buffer.
IterationLeavesLoop ==
    /\ []CursorWithinStream
    /\ [][CursorAdvances]_vars
    /\ <>(phase # "loop")

\* A state of the loop has a step to take, which is what LiveSpec's
\* fairness condition relies on.
LoopStateHasStep ==
    phase = "loop" =>
        /\ rc.pc \in {"start", "parse", "read", "scan", "append", "last", "final", "return"}
        /\ rc.pc = "return" => rc.result.kind \in {"Ok", "UnexpectedEof", "InvalidData"}
        /\ CallStepEnabled <=> rc.pc # "return"

\* Without a tail buffer of capacity 0 the pass ends as C26 says.
IterationTerminatesWithoutEmptyTail ==
    (tail_buffer.some /\ tail_buffer.v.capacity = 0) \/ <>Finished


\* C27: TailBuffer::add completes without failure for every capacity,
\* capacity 0 included (the capacity the filter "5:0" gives): with
\* capacity 0 it counts the record in total_seen and stores nothing.
C27_AddCompletesAtAnyCapacity ==
    /\ phase # "panicked"
    /\ tail_buffer.v.total_seen = Len(emitted)
    /\ tail_buffer.v.capacity = 0 => tail_buffer.v.chunks = <<>>


\* The FileSummary has been computed.
SummaryComputed == phase = "done"

\* The totals of the summary are the sums over the chunks returned.
SummaryTotalsAreSums ==
    SummaryComputed =>
        /\ summary.total_chunks = Len(emitted)
        /\ summary.total_compressed_size = SumSizes(emitted)
        /\ summary.average_compression_ratio =
              <<summary.total_uncompressed_size, summary.total_compressed_size>>

\* C28: whenever inspect_file computes the FileSummary,
\* total_compressed_size is the sum of the compressed sizes of all the
\* chunks returned and is greater than zero, so the divisor of the
\* average ratio total_uncompressed / total_compressed is never zero,
\* also for a stream that yields no chunk.
C28_SummaryDivisorPositive ==
    /\ SummaryTotalsAreSums
    /\ SummaryComputed => summary.average_compression_ratio[2] > 0

\* What holds of C28 in the code: the divisor is zero exactly when no
\* chunk was returned.
SummaryDivisorZeroWithoutChunks ==
    /\ SummaryTotalsAreSums
    /\ SummaryComputed =>
          (summary.average_compression_ratio[2] = 0 <=> emitted = <<>>)

=============================================================================
